---- MODULE Spec2Model ----
(***************************************************************************)
(* PTO calculator (src/script.js, the variant with hard_coded_dates and    *)
(* suppressedDefaults, lines 238-548): the cookie-backed state store, the  *)
(* default-entry reconciler and the event handlers that drive them.        *)
(***************************************************************************)
EXTENDS Integers, Sequences, FiniteSets, TLC

VARIABLES
  cookie,     \* document.cookie's ptoData value (the persistence boundary)
  rendered,   \* the state object last handed to updateUI (what the page shows)
  pc,         \* "loading": script not run yet; "ready": init() bound the handlers;
              \* "crashed": init() threw before bindEvents()
  last,       \* the handler that ran last, its inputs and whether it threw
  args,       \* inputs of a direct call of one of the pure functions
  ret         \* what the direct calls returned, in order

vars == <<cookie, rendered, pc, last, args, ret>>

(***************************************************************************)
(* JavaScript values.  Every value carries its type in field t, and each    *)
(* type keeps its content in a field of its own, so values of different    *)
(* types compare unequal.                                                  *)
(***************************************************************************)
Undefined == [t |-> "undefined"]
Null      == [t |-> "null"]
NaN       == [t |-> "NaN"]
Infinity  == [t |-> "Infinity"]
Num(n)    == [t |-> "number", n |-> n]
Str(s)    == [t |-> "string", s |-> s]
Arr(a)    == [t |-> "array", a |-> a]
Obj(f)    == [t |-> "object", f |-> f]

\* An exception propagating out of a call.
TypeError == [t |-> "TypeError"]

\* obj.key for a non-nullish obj: own property or undefined.
Get(obj, key) ==
  IF obj.t = "object" /\ key \in DOMAIN obj.f THEN obj.f[key] ELSE Undefined

\* JavaScript truthiness, as used by `||` and `!`.
Truthy(x) ==
  CASE x.t \in {"undefined", "null", "NaN"} -> FALSE
    [] x.t = "string" -> x.s # ""
    [] x.t = "number" -> x.n # 0
    [] OTHER -> TRUE

Or(x, y) == IF Truthy(x) THEN x ELSE y

\* Array.isArray
IsArray(x) == x.t = "array"

\* String conversion inside a template literal.
RECURSIVE JoinStr(_)
RECURSIVE ToStr(_)
ToStr(x) ==
  CASE x.t = "string"    -> x.s
    [] x.t = "number"    -> ToString(x.n)
    [] x.t = "Infinity"  -> "Infinity"
    [] x.t = "NaN"       -> "NaN"
    [] x.t = "null"      -> "null"
    [] x.t = "undefined" -> "undefined"
    [] x.t = "array"     -> JoinStr(x.a)
    [] OTHER             -> "[object Object]"

JoinStr(s) ==
  IF s = <<>> THEN ""
  ELSE LET h == IF Head(s).t \in {"null", "undefined"} THEN "" ELSE ToStr(Head(s))
       IN IF Len(s) = 1 THEN h ELSE h \o "," \o JoinStr(Tail(s))

\* { ...x }: the own enumerable properties of x.  The index keys that an array
\* or a string would contribute are never read by the program and are left out.
Spread(x) == IF x.t = "object" THEN x.f ELSE <<>>

(***************************************************************************)
(* JSON.  A JSON text is modelled by the value it parses to; stringify is   *)
(* the lossy step: undefined properties are dropped, undefined array        *)
(* elements and non-finite numbers become null.                             *)
(***************************************************************************)
RECURSIVE Jsonify(_)
Jsonify(x) ==
  CASE x.t \in {"Infinity", "NaN", "undefined"} -> Null
    [] x.t = "array"  -> Arr([i \in 1..Len(x.a) |-> Jsonify(x.a[i])])
    [] x.t = "object" ->
         LET keep == {k \in DOMAIN x.f : x.f[k].t # "undefined"}
         IN Obj([k \in keep |-> Jsonify(x.f[k])])
    [] OTHER -> x

\* The cookie: absent, present with an empty value, a text that fails
\* decodeURIComponent/JSON.parse, or encodeURIComponent(JSON.stringify(v)).
NoCookie      == [t |-> "absent"]
EmptyCookie   == [t |-> "empty"]
MalformedText == [t |-> "malformed"]
JsonText(v)   == [t |-> "json", v |-> v]

JSONstringify(x) == JsonText(Jsonify(x))

(***************************************************************************)
(* Program constants.                                                      *)
(***************************************************************************)
HOURS_PER_DAY == 8

Entry(date, hours) == Obj([date |-> date, hours |-> hours])

hard_coded_dates ==
  Arr(<< Entry(Str("2025-10-27"), Num(HOURS_PER_DAY)),
         Entry(Str("2025-12-10"), Num(HOURS_PER_DAY)),
         Entry(Str("2025-12-22"), Num(HOURS_PER_DAY)),
         Entry(Str("2025-12-23"), Num(HOURS_PER_DAY)),
         Entry(Str("2025-12-26"), Num(HOURS_PER_DAY)) >>)

defaultState ==
  Obj([startDate |-> Str("2025-09-15"),
       entries |-> Arr(<<>>),
       suppressedDefaults |-> Arr(<<>>)])

(***************************************************************************)
(* DefaultEntryReconciler.                                                 *)
(***************************************************************************)
\* entry.date on null or undefined throws.
KeyThrows(entry) == entry.t \in {"null", "undefined"}

entryKey(entry) == ToStr(Get(entry, "date")) \o "|" \o ToStr(Get(entry, "hours"))

Keys(s) == {entryKey(s[i]) : i \in 1..Len(s)}

\* The loop without its `!seen.has(key)` test: a default is appended whenever
\* it is not suppressed.
RECURSIVE MergeLoop_IgnoreSeen(_, _, _, _)
MergeLoop_IgnoreSeen(merged, seen, defaults, suppressedSet) ==
  IF defaults = <<>> THEN merged
  ELSE IF entryKey(Head(defaults)) \notin suppressedSet
       THEN MergeLoop_IgnoreSeen(Append(merged, Head(defaults)), seen, Tail(defaults),
                                 suppressedSet)
       ELSE MergeLoop_IgnoreSeen(merged, seen, Tail(defaults), suppressedSet)

RECURSIVE MergeLoop(_, _, _, _)
MergeLoop(merged, seen, defaults, suppressedSet) ==
  IF defaults = <<>> THEN merged
  ELSE LET entry == Head(defaults)
           key == entryKey(entry)
       IN IF key \notin seen /\ key \notin suppressedSet
          THEN MergeLoop(Append(merged, entry), seen \cup {key}, Tail(defaults), suppressedSet)
          ELSE MergeLoop(merged, seen, Tail(defaults), suppressedSet)

\* mergeDefaultEntries with `seen` starting empty instead of holding the keys
\* of the existing entries.
mergeDefaultEntries_NoExisting(existingEntries, defaults, suppressed) ==
  Arr(MergeLoop(existingEntries.a, {}, defaults.a, Keys(Or(suppressed, Arr(<<>>)).a)))

\* mergeDefaultEntries without `seen.add(key)`: a key the catalog names twice
\* is appended twice.
mergeDefaultEntries_NoSeenAdd(existingEntries, defaults, suppressed) ==
  Arr(existingEntries.a \o
      SelectSeq(defaults.a,
                LAMBDA e : entryKey(e) \notin Keys(existingEntries.a)
                                               \cup Keys(Or(suppressed, Arr(<<>>)).a)))

\* mergeDefaultEntries that does not look at the suppressed entries.
mergeDefaultEntries_NoSuppression(existingEntries, defaults, suppressed) ==
  Arr(MergeLoop(existingEntries.a, Keys(existingEntries.a), defaults.a, {}))

\* Arguments and result are arrays; the result is TypeError when entryKey is
\* applied to a null or undefined element.
mergeDefaultEntries(existingEntries, defaults, suppressed) ==
  LET supp == Or(suppressed, Arr(<<>>))
  IN IF \/ \E i \in 1..Len(supp.a) : KeyThrows(supp.a[i])
        \/ \E i \in 1..Len(existingEntries.a) : KeyThrows(existingEntries.a[i])
        \/ \E i \in 1..Len(defaults.a) : KeyThrows(defaults.a[i])
     THEN TypeError
     ELSE Arr(MergeLoop(existingEntries.a, Keys(existingEntries.a), defaults.a, Keys(supp.a)))

\* A delete handler that records no suppression (as in the older variant of
\* the script, lines 80-93).
addSuppressedDefault_Never(entry, suppressed, defaults) == suppressed

\* addSuppressedDefault without its `includes(key)` test.
addSuppressedDefault_NoDedup(entry, suppressed, defaults) ==
  IF entryKey(entry) \notin Keys(defaults.a) THEN suppressed
  ELSE Arr(Append(suppressed.a, Entry(Get(entry, "date"), Get(entry, "hours"))))

addSuppressedDefault(entry, suppressed, defaults) ==
  IF \/ KeyThrows(entry)
     \/ \E i \in 1..Len(defaults.a) : KeyThrows(defaults.a[i])
  THEN TypeError
  ELSE LET key == entryKey(entry)
       IN IF key \notin Keys(defaults.a) THEN suppressed
          ELSE IF \E i \in 1..Len(suppressed.a) : KeyThrows(suppressed.a[i]) THEN TypeError
          ELSE IF key \in Keys(suppressed.a) THEN suppressed
          ELSE Arr(Append(suppressed.a, Entry(Get(entry, "date"), Get(entry, "hours"))))

(***************************************************************************)
(* StateStore.  Each operation returns what it returns in the program and  *)
(* the cookie it leaves behind.                                            *)
(***************************************************************************)
\* saveState(state): the cookie value written.
saveState(state) == JSONstringify(state)

\* getCookie(COOKIE_NAME): the raw value, falsy when absent or empty.
RawMissing(c) == c.t \in {"absent", "empty"}

\* JSON.parse(decodeURIComponent(raw)) throws on a malformed text; reading
\* parsed.entries throws when the text parses to null.
ParseThrows(c) == c.t = "malformed" \/ c.v.t = "null"

\* The object literal of loadState: defaults for the fields parsed lacks, and
\* empty arrays for an entries or suppressedDefaults that is not an array.
Normalize(parsed) ==
  LET entries == Get(parsed, "entries")
      suppressedDefaults == Get(parsed, "suppressedDefaults")
  IN Obj([entries |-> IF IsArray(entries) THEN entries ELSE Arr(<<>>),
          suppressedDefaults |->
            IF IsArray(suppressedDefaults) THEN suppressedDefaults ELSE Arr(<<>>)]
         @@ Spread(parsed) @@ Spread(defaultState))

\* loadState whose catch branch returns the default without saving it.
loadState_NoReseed(c) ==
  IF RawMissing(c) \/ ParseThrows(c) THEN [state |-> defaultState, cookie |-> c]
  ELSE [state |-> Normalize(c.v), cookie |-> c]

loadState(c) ==
  IF RawMissing(c) THEN [state |-> defaultState, cookie |-> c]
  ELSE IF ParseThrows(c)
       THEN [state |-> defaultState, cookie |-> saveState(defaultState)]
  ELSE [state |-> Normalize(c.v), cookie |-> c]

\* The object literal of ensureState: legacy and unknown fields are stripped.
Normalized(state) ==
  Obj([startDate |-> Or(Get(state, "startDate"), Get(defaultState, "startDate")),
       entries |-> Or(Get(state, "entries"), Arr(<<>>)),
       suppressedDefaults |-> Or(Get(state, "suppressedDefaults"), Arr(<<>>))])

\* What a call returns (state), whether it threw instead, the cookie it leaves,
\* and the entries it handed to mergeDefaultEntries (before).
ensureState(c) ==
  LET ld == loadState(c)
      normalized == Normalized(ld.state)
      merged == mergeDefaultEntries(Get(normalized, "entries"), hard_coded_dates,
                                    Get(normalized, "suppressedDefaults"))
      next == Obj([entries |-> merged] @@ normalized.f)
  IN IF merged.t = "TypeError"
     THEN [threw |-> TRUE, state |-> Undefined, cookie |-> ld.cookie, before |-> Undefined]
     ELSE [threw |-> FALSE, state |-> next, cookie |-> saveState(next),
           before |-> Get(normalized, "entries")]

(***************************************************************************)
(* DateMath.  Calendar days are looked up in a table of the days that occur *)
(* in the model; any other text is an Invalid Date.                         *)
(***************************************************************************)
\* Days from 2025-01-01 to the day written YYYY-MM-DD.
DayIndex ==
  ("2025-09-15" :> 257) @@ ("2025-09-25" :> 267) @@ ("2025-10-27" :> 299) @@
  ("2025-11-06" :> 309) @@ ("2025-12-10" :> 343) @@ ("2025-12-22" :> 355) @@
  ("2025-12-23" :> 356) @@ ("2025-12-25" :> 358) @@ ("2025-12-26" :> 359)

\* A Date at local midnight of a day.
DateAt(day) == [t |-> "date", day |-> day]

\* new Date(`${value}T00:00:00`), or null for an empty value or an Invalid Date.
toStartOfDay(value) ==
  IF ~Truthy(value) THEN Null
  ELSE IF ToStr(value) \in DOMAIN DayIndex
       THEN DateAt(DayIndex[ToStr(value)])
       ELSE Null

(***************************************************************************)
(* Ledger.  Time is counted in hours (3,600,000 ms): a Date at local         *)
(* midnight is a whole number of hours after 1970-01-01T00:00Z in every     *)
(* time zone of the model.  Accrued hours are exact fractions over          *)
(* MS_PER_DAY * 365; the rounding of floating point is left out.            *)
(***************************************************************************)
\* One day, in hours.
MS_PER_DAY == 24
ACCRUAL_DAYS_PER_YEAR == 20

\* Days from 1970-01-01 to 2025-01-01.
EpochDays2025 == 20089

\* The time zones the page runs in: one without clock changes, and one whose
\* clocks go back an hour on 2025-11-02 (day 305 of DayIndex), from UTC-4 to
\* UTC-5.
TimeZones == {"UTC", "America/New_York"}
UtcOffset(zone, day) ==
  IF zone = "UTC" THEN 0 ELSE IF day < 305 THEN -4 ELSE -5

\* date.getTime() of a Date at local midnight.
getTime(date, zone) ==
  (EpochDays2025 + date.day) * MS_PER_DAY - UtcOffset(zone, date.day)

\* The number a relational or arithmetic operator makes of null or of a Date.
TimeValue(x, zone) == IF x.t = "date" THEN getTime(x, zone) ELSE 0

\* Number(value) of a cookie value; NaN for any string but those listed.
ToNumber(x) ==
  CASE x.t = "number"   -> x
    [] x.t = "Infinity" -> x
    [] x.t = "null"     -> Num(0)
    [] x.t = "string"   -> (CASE x.s = ""  -> Num(0)
                              [] x.s = "8" -> Num(8)
                              [] x.s = "4" -> Num(4)
                              [] OTHER     -> NaN)
    [] OTHER            -> NaN

\* total + x on numbers.
Plus(x, y) ==
  CASE x.t = "NaN" \/ y.t = "NaN"           -> NaN
    [] x.t = "Infinity" \/ y.t = "Infinity" -> Infinity
    [] OTHER                                -> Num(x.n + y.n)

\* An exact fraction.
Frac(num, den) == [t |-> "number", num |-> num, den |-> den]

\* The accrual that counts the start day as well (inclusive elapsed days).
calculateAccruedHours_Inclusive(targetDateString, state, zone) ==
  LET start == toStartOfDay(Get(state, "startDate"))
      target == toStartOfDay(targetDateString)
  IN IF start.t = "null" \/ target.t = "null"
        \/ getTime(target, zone) < getTime(start, zone)
     THEN Frac(0, MS_PER_DAY * 365)
     ELSE Frac((getTime(target, zone) - getTime(start, zone) + MS_PER_DAY)
                 * (ACCRUAL_DAYS_PER_YEAR * HOURS_PER_DAY),
               MS_PER_DAY * 365)

calculateAccruedHours(targetDateString, state, zone) ==
  LET start == toStartOfDay(Get(state, "startDate"))
      target == toStartOfDay(targetDateString)
  IN IF start.t = "null" \/ target.t = "null"
        \/ getTime(target, zone) < getTime(start, zone)
     THEN Frac(0, MS_PER_DAY * 365)
     ELSE Frac((getTime(target, zone) - getTime(start, zone))
                 * (ACCRUAL_DAYS_PER_YEAR * HOURS_PER_DAY),
               MS_PER_DAY * 365)

\* .reduce((total, entry) => total + Number(entry.hours || 0), 0)
RECURSIVE Reduce(_, _)
Reduce(total, entries) ==
  IF entries = <<>> THEN total
  ELSE Reduce(Plus(total, ToNumber(Or(Get(Head(entries), "hours"), Num(0)))),
              Tail(entries))

calculateUsedHours(targetDateString, state, zone) ==
  LET target == toStartOfDay(targetDateString)
  IN IF target.t = "null" THEN Num(0)
     ELSE Reduce(Num(0),
                 SelectSeq(Get(state, "entries").a,
                           LAMBDA entry :
                             TimeValue(toStartOfDay(Get(entry, "date")), zone)
                               <= TimeValue(target, zone)))

(***************************************************************************)
(* Inputs of the handlers and bounds of the model.                         *)
(***************************************************************************)
\* At most this many entries beyond the unsuppressed catalog are stored.
MaxAdded == 1

\* At most this many catalog entries are deleted (suppressed).
MaxSuppressed == 2

\* toDateInputValue(new Date()): the day the handler runs.
Today == Str("2025-12-25")

\* What the entry form holds on submit, <<elements.ptoDate.value,
\* elements.ptoHours.value>>: a catalog day with the hours left empty, and no
\* date with negative and with non-finite hours.
FormInputs == {<<"2025-10-27", "">>, <<"", "-4">>, <<"", "Infinity">>}

\* Number(string) on the strings a form field is given here.
Number(s) ==
  CASE s = ""         -> Num(0)
    [] s = "8"        -> Num(8)
    [] s = "4"        -> Num(4)
    [] s = "-4"       -> Num(-4)
    [] s = "Infinity" -> Infinity
    [] OTHER          -> NaN

\* The index test without its upper bound.
ValidIndex_NoUpperBound(index, length) == index.t = "number" /\ index.n >= 0

\* Number.isInteger(index) && index >= 0 && index < length
ValidIndex(index, length) == index.t = "number" /\ index.n >= 0 /\ index.n < length

EntriesOf(state) == Get(state, "entries").a
SuppressedOf(state) == Get(state, "suppressedDefaults").a

\* Stored entries beyond the unsuppressed catalog entries.
Added(state) ==
  Len(EntriesOf(state))
    - Cardinality(Keys(hard_coded_dates.a) \ Keys(SuppressedOf(state)))

\* state.entries[index], index counted from 0: undefined unless index names
\* an element.
At(s, index) ==
  IF index.t = "number" /\ index.n >= 0 /\ index.n < Len(s) THEN s[index.n + 1]
  ELSE Undefined

\* A delete that drops every entry with the key of the clicked one.
RemoveAt_ByKey(s, index) ==
  IF index \in 0..(Len(s) - 1)
  THEN SelectSeq(s, LAMBDA e : entryKey(e) # entryKey(s[index + 1]))
  ELSE s

\* entries.filter((_, i) => i !== index), index counted from 0
RemoveAt(s, index) ==
  IF index \in 0..(Len(s) - 1)
  THEN [j \in 1..(Len(s) - 1) |-> IF j <= index THEN s[j] ELSE s[j + 1]]
  ELSE s

NotRendered == [t |-> "none"]
NoCall == [t |-> "none"]

\* The record kept of the handler that ran last: which one, whether it threw,
\* what its last ensureState() call merged from (before) and returned.
Ran(op, r) == [op |-> op, threw |-> r.threw, before |-> r.before, returned |-> r.state]
NoHandler == [op |-> "none", threw |-> FALSE, before |-> Undefined, returned |-> Undefined]

\* Persisted values found when the page loads: none, unparseable, JSON of the
\* wrong shape, a cookie written by the older variant of the script (lines
\* 6-10, 207-213), well-formed states, and the text
\* {"entries":[{"date":"2025-10-27","hours":1e999}]}, whose number JSON.parse
\* reads as Infinity.
InitialCookies ==
  { NoCookie, EmptyCookie, MalformedText,
    JsonText(Null), JsonText(Num(5)), JsonText(Str("x")), JsonText(Arr(<<>>)),
    JsonText(Obj(<<>>)),
    JsonText(Obj([entries |-> Str("x"), suppressedDefaults |-> Num(5)])),
    JsonText(Obj([entries |-> Arr(<<Null>>)])),
    JsonText(Obj([suppressedDefaults |-> Arr(<<Null>>)])),
    JsonText(Obj([entries |-> Arr(<<Num(5)>>)])),
    JsonText(Obj([startDate |-> Str("garbage")])),
    JsonText(Obj([startDate |-> Null, entries |-> Null, suppressedDefaults |-> Null])),
    JsonText(Obj([hoursPerDay |-> Num(8),
                  entries |-> Arr(<<Entry(Str("2025-12-25"), Num(8))>>)])),
    JsonText(Obj([entries |-> Arr(<<Entry(Str("2025-10-27"), Infinity)>>)])),
    JsonText(Obj([startDate |-> Str("2025-09-15"),
                  entries |-> Arr(<<Entry(Str("2025-10-27"), Num(8))>>),
                  suppressedDefaults |-> Arr(<<Entry(Str("2025-12-26"), Num(8))>>)])) }

(***************************************************************************)
(* The history list.                                                       *)
(***************************************************************************)
\* new Date(entry.date) as the sort comparator reads it: the day of a
\* YYYY-MM-DD string, or -1 for an Invalid Date (whose difference is NaN).
SortDay(entry) ==
  LET date == Get(entry, "date")
  IN IF date.t = "string" /\ date.s \in DOMAIN DayIndex THEN DayIndex[date.s] ELSE -1

\* One <li> of the list: the date and the hours it shows (null stands for
\* "Invalid Date") and the data-delete-index of its button.
Row(entry, index) ==
  [date |-> LET text == ToStr(Get(entry, "date"))
            IN IF text \in DOMAIN DayIndex THEN DateAt(DayIndex[text]) ELSE Null,
   hours |-> ToNumber(Get(entry, "hours")),
   deleteIndex |-> Num(index)]

\* A stable sort, newest first: row goes behind the rows that are not older.
RECURSIVE InsertRow(_, _, _)
InsertRow(entries, index, sorted) ==
  IF sorted = <<>> THEN <<index>>
  ELSE IF SortDay(entries[Head(sorted)]) >= SortDay(entries[index])
       THEN <<Head(sorted)>> \o InsertRow(entries, index, Tail(sorted))
       ELSE <<index>> \o sorted

RECURSIVE SortNewestFirst(_, _)
SortNewestFirst(entries, n) ==
  IF n = 0 THEN <<>> ELSE InsertRow(entries, n, SortNewestFirst(entries, n - 1))

\* renderHistory(state): the rows of the list, each with the index its entry
\* has in state.entries.  With an entry whose date is no date the comparator
\* returns NaN, the order of the rows is implementation-defined and anyOrder
\* is set; rows then holds them in stored order.  An empty list shows one
\* <li> without a button, which is no row here.
renderHistory(state) ==
  LET entries == EntriesOf(state)
      anyOrder == \E i \in 1..Len(entries) : SortDay(entries[i]) < 0
      order == IF anyOrder THEN [i \in 1..Len(entries) |-> i]
               ELSE SortNewestFirst(entries, Len(entries))
  IN [rows |-> [k \in 1..Len(entries) |-> Row(entries[order[k]], order[k] - 1)],
      anyOrder |-> anyOrder]

(***************************************************************************)
(* The page: init() and the four event handlers.                           *)
(***************************************************************************)
Init ==
  /\ cookie \in InitialCookies
  /\ rendered = NotRendered
  /\ pc = "loading"
  /\ last = NoHandler
  /\ args = NoCall
  /\ ret = <<>>

\* init(): runs when the document is (re)loaded.
PageLoad ==
  \E r \in {ensureState(cookie)} :
     /\ cookie' = r.cookie
     /\ pc' = IF r.threw THEN "crashed" ELSE "ready"
     /\ rendered' = IF r.threw THEN NotRendered ELSE r.state
     /\ last' = Ran("init", r)
     /\ args' = [fn |-> "init"]
     /\ UNCHANGED ret

\* A handler whose first ensureState() call throws: nothing after it runs.
Aborted(op, r1) ==
  /\ r1.threw
  /\ cookie' = r1.cookie
  /\ last' = Ran(op, r1)
  /\ UNCHANGED rendered

\* saveState(next); refreshed = ensureState(); updateUI(refreshed)
SaveAndRefresh(op, next) ==
  \E r2 \in {ensureState(saveState(next))} :
     /\ cookie' = r2.cookie
     /\ rendered' = IF r2.threw THEN rendered ELSE r2.state
     /\ last' = Ran(op, r2)

\* submit on the entry form.
Submit ==
  /\ pc = "ready"
  /\ \E form \in FormInputs, r1 \in {ensureState(cookie)} :
       /\ args' = [fn |-> "submit", ptoDate |-> form[1], ptoHours |-> form[2]]
       /\ \/ Aborted("submit", r1)
          \/ /\ ~r1.threw
             /\ Added(r1.state) < MaxAdded
             /\ LET state == r1.state
                    entryDate == Or(Str(form[1]), Today)
                    hours == Or(Number(form[2]), Num(HOURS_PER_DAY))
                IN SaveAndRefresh("submit",
                     Obj([entries |-> Arr(Append(EntriesOf(state), Entry(entryDate, hours)))]
                         @@ state.f))
  /\ UNCHANGED <<pc, ret>>

\* click on "clear history".
ResetEntries ==
  /\ pc = "ready"
  /\ \E r1 \in {ensureState(cookie)} :
       \/ Aborted("reset", r1)
       \/ /\ ~r1.threw
          /\ SaveAndRefresh("reset", Obj([entries |-> Arr(<<>>)] @@ r1.state.f))
  /\ args' = [fn |-> "reset"]
  /\ UNCHANGED <<pc, ret>>

\* Number(button.dataset.deleteIndex) for the buttons of a list of n rows, and
\* for an index that no longer names a row.
DeleteIndexInputs(n) == {Num(i) : i \in (-1)..n} \cup {NaN}

\* click on a Delete button of the history list.
HistoryClick ==
  /\ pc = "ready"
  /\ \E r1 \in {ensureState(cookie)} :
       \/ Aborted("delete", r1) /\ args' = [fn |-> "delete", index |-> NaN]
       \/ /\ ~r1.threw
          /\ \E index \in DeleteIndexInputs(Len(EntriesOf(r1.state))) :
               /\ args' = [fn |-> "delete", index |-> index]
               /\ IF ValidIndex(index, Len(EntriesOf(r1.state)))
                  THEN \E suppressedDefaults \in
                            {addSuppressedDefault(At(EntriesOf(r1.state), index),
                               Or(Get(r1.state, "suppressedDefaults"), Arr(<<>>)),
                               hard_coded_dates)} :
                         IF suppressedDefaults.t = "TypeError"
                         THEN /\ cookie' = r1.cookie
                              /\ last' = [NoHandler EXCEPT !.op = "delete", !.threw = TRUE]
                              /\ UNCHANGED rendered
                         ELSE /\ Len(suppressedDefaults.a) <= MaxSuppressed
                              /\ SaveAndRefresh("delete",
                                   Obj([entries |-> Arr(RemoveAt(EntriesOf(r1.state), index.n)),
                                        suppressedDefaults |-> suppressedDefaults]
                                       @@ r1.state.f))
                  ELSE /\ cookie' = r1.cookie
                       /\ last' = Ran("ignored", r1)
                       /\ UNCHANGED rendered
  /\ UNCHANGED <<pc, ret>>

\* change of the check-date input.
CheckDateChange ==
  /\ pc = "ready"
  /\ \E r \in {ensureState(cookie)} :
       /\ cookie' = r.cookie
       /\ rendered' = IF r.threw THEN rendered ELSE r.state
       /\ last' = Ran("check", r)
  /\ args' = [fn |-> "check"]
  /\ UNCHANGED <<pc, ret>>

Next == PageLoad \/ Submit \/ ResetEntries \/ HistoryClick \/ CheckDateChange

Spec == Init /\ [][Next]_vars

\* The page opened for the first time: no cookie is stored.
InitEmpty == Init /\ cookie = NoCookie
SpecEmpty == InitEmpty /\ [][Next]_vars

(***************************************************************************)
(* Direct calls of the reconciler and of the state store, with inputs      *)
(* drawn from bounded sets.                                                *)
(***************************************************************************)
\* Longest entry, catalog and suppressed sequence handed to a direct call.
MaxLen == 2

SeqsOver(S, n) == UNION {[1..k -> S] : k \in 0..n}

\* Entries: one with a catalog key, one with the same key and another hours
\* type, one with a key of its own.
EntryValues ==
  { Entry(Str("2025-10-27"), Num(HOURS_PER_DAY)),
    Entry(Str("2025-10-27"), Str("8")),
    Entry(Str("2025-12-25"), Num(4)) }

CatalogValues == {hard_coded_dates.a[1], hard_coded_dates.a[2]}

EntrySeqs == {Arr(q) : q \in SeqsOver(EntryValues, MaxLen)}
Catalogs == {Arr(q) : q \in SeqsOver(CatalogValues, MaxLen)} \cup {hard_coded_dates}

\* States handed to saveState: a startDate string, an array of entries, an
\* array of suppressed entries.  The entries include those the submit handler
\* saves for the hours input "Infinity" (line 315).
WellFormedStates ==
  { Obj([startDate |-> Str(d), entries |-> e, suppressedDefaults |-> q]) :
      d \in {"2025-09-15", ""},
      e \in EntrySeqs \cup {Arr(<<Entry(Today, Infinity)>>)},
      q \in EntrySeqs }

\* Ledger inputs: entries dated before and after the check dates, an entry
\* whose date is no calendar day and an entry without a date; start dates and
\* target dates, valid, unparseable and empty.
LedgerEntryValues ==
  { Entry(Str("2025-10-27"), Num(HOURS_PER_DAY)),
    Entry(Str("2025-12-26"), Num(4)),
    Entry(Str("garbage"), Num(HOURS_PER_DAY)),
    Obj([hours |-> Num(4)]) }
LedgerEntrySeqs == {Arr(q) : q \in SeqsOver(LedgerEntryValues, MaxLen)}
StartDates == {"2025-09-15", "2025-10-27", "garbage", ""}
TargetDates ==
  {"2025-09-15", "2025-09-25", "2025-10-27", "2025-11-06", "2025-12-25", "garbage", ""}

LedgerCalls ==
  { [fn |-> "calculateUsedHours", targetDateString |-> Str(d),
     state |-> Obj([startDate |-> Str("2025-09-15"), entries |-> e,
                    suppressedDefaults |-> Arr(<<>>)]),
     zone |-> z] :
      d \in {"2025-10-27", "2025-12-25", "garbage", ""}, e \in LedgerEntrySeqs,
      z \in TimeZones }
  \cup
  { [fn |-> "calculateAccruedHours", targetDateString |-> Str(d), later |-> Str(d2),
     state |-> Obj([startDate |-> Str(sd), entries |-> Arr(<<>>),
                    suppressedDefaults |-> Arr(<<>>)]),
     zone |-> z] :
      d \in TargetDates, d2 \in TargetDates, sd \in StartDates, z \in TimeZones }

PureCalls ==
  LedgerCalls \cup
  { [fn |-> "mergeDefaultEntries", existingEntries |-> e, defaults |-> c, suppressed |-> q] :
      e \in EntrySeqs, c \in Catalogs, q \in EntrySeqs }
  \cup
  { [fn |-> "addSuppressedDefault", entry |-> e, suppressed |-> q, defaults |-> c] :
      e \in EntryValues, q \in EntrySeqs, c \in Catalogs }
  \cup
  { [fn |-> "saveState", state |-> st] : st \in WellFormedStates }
  \cup
  { [fn |-> "loadState", stored |-> c] : c \in InitialCookies }

InitPure ==
  /\ args \in PureCalls
  /\ cookie = IF args.fn = "loadState" THEN args.stored ELSE NoCookie
  /\ rendered = NotRendered
  /\ pc = "call"
  /\ last = NoHandler
  /\ ret = <<>>

\* mergeDefaultEntries on the inputs, then once more on its own result.
CallMerge ==
  /\ args.fn = "mergeDefaultEntries"
  /\ Len(ret) < 2
  /\ ret' = Append(ret, mergeDefaultEntries(IF ret = <<>> THEN args.existingEntries
                                            ELSE ret[Len(ret)],
                                            args.defaults, args.suppressed))
  /\ UNCHANGED <<cookie, rendered, pc, last, args>>

CallSuppress ==
  /\ args.fn = "addSuppressedDefault"
  /\ ret = <<>>
  /\ ret' = <<addSuppressedDefault(args.entry, args.suppressed, args.defaults)>>
  /\ UNCHANGED <<cookie, rendered, pc, last, args>>

CallSave ==
  /\ args.fn = "saveState"
  /\ cookie = NoCookie
  /\ cookie' = saveState(args.state)
  /\ UNCHANGED <<rendered, pc, last, args, ret>>

CallLoad ==
  /\ \/ args.fn = "loadState"
     \/ args.fn = "saveState" /\ cookie # NoCookie
  /\ ret = <<>>
  /\ \E ld \in {loadState(cookie)} :
       /\ ret' = <<ld.state>>
       /\ cookie' = ld.cookie
  /\ UNCHANGED <<rendered, pc, last, args>>

CallUsed ==
  /\ args.fn = "calculateUsedHours"
  /\ ret = <<>>
  /\ ret' = <<calculateUsedHours(args.targetDateString, args.state, args.zone)>>
  /\ UNCHANGED <<cookie, rendered, pc, last, args>>

\* calculateAccruedHours for a check date, then for a second check date.
CallAccrued ==
  /\ args.fn = "calculateAccruedHours"
  /\ Len(ret) < 2
  /\ ret' = Append(ret, calculateAccruedHours(IF ret = <<>> THEN args.targetDateString
                                              ELSE args.later,
                                              args.state, args.zone))
  /\ UNCHANGED <<cookie, rendered, pc, last, args>>

NextPure == CallMerge \/ CallSuppress \/ CallSave \/ CallLoad \/ CallUsed \/ CallAccrued

SpecPure == InitPure /\ [][NextPure]_vars

(***************************************************************************)
(* Properties.                                                             *)
(***************************************************************************)
CatalogKeys == Keys(hard_coded_dates.a)

\* How many entries of sequence q have key k.
Count(k, q) == Cardinality({i \in 1..Len(q) : entryKey(q[i]) = k})

\* A handler has run and its last ensureState() call returned.
Ensured == last.op # "none" /\ ~last.threw

\* The page is up and the cookie holds what a handler wrote.
Ready == pc = "ready" /\ cookie.t = "json"

\* C1: after every ensureState() call that returns, the returned entries and
\* the persisted entries each hold an entry for every catalog key that is not
\* suppressed, and the returned entries are the entries handed to the merge
\* followed only by catalog entries whose keys were neither present nor
\* suppressed, each once.
C1_EnsureMergesCatalog ==
  Ensured =>
    LET returned == EntriesOf(last.returned)
        supp == SuppressedOf(last.returned)
        before == last.before.a
        added == (Len(before) + 1)..Len(returned)
    IN /\ cookie.t = "json"
       /\ \A k \in CatalogKeys \ Keys(SuppressedOf(cookie.v)) :
            k \in Keys(EntriesOf(cookie.v))
       /\ \A k \in CatalogKeys \ Keys(supp) : k \in Keys(returned)
       /\ \A i \in 1..Len(hard_coded_dates.a) :
            LET k == entryKey(hard_coded_dates.a[i])
            IN (k \notin Keys(supp) /\ k \notin Keys(before))
                 => \E j \in added : returned[j] = hard_coded_dates.a[i]
       /\ Len(returned) >= Len(before)
       /\ SubSeq(returned, 1, Len(before)) = before
       /\ \A j \in added :
            /\ entryKey(returned[j]) \in CatalogKeys
            /\ entryKey(returned[j]) \notin Keys(before) \cup Keys(supp)
            /\ \A j2 \in added : j2 # j => entryKey(returned[j2]) # entryKey(returned[j])

\* An ensureState() call merged catalog entries into stored entries while one
\* catalog entry was suppressed and another was already stored.
C1_Witness ==
  /\ Ensured
  /\ Len(SuppressedOf(last.returned)) >= 1
  /\ Len(last.before.a) >= 1
  /\ Len(EntriesOf(last.returned)) > Len(last.before.a)

\* C2 as claimed: whenever a catalog key is in suppressedDefaults, no entry
\* with that key is in the entries an ensureState() call has returned.
C2_SuppressedAbsent ==
  (Ensured /\ Ready) =>
    \A k \in CatalogKeys \cap Keys(SuppressedOf(cookie.v)) :
      k \notin Keys(EntriesOf(cookie.v))

\* C2, amended: a delete removes exactly one stored entry and, when that
\* entry's key is a catalog key, leaves the key in suppressedDefaults; no
\* handler takes a key out of suppressedDefaults; and the number of entries
\* with a suppressed catalog key grows only by a submit that adds that very
\* date and hours (never by the merge of ensureState).
C2_SuppressionPersists ==
  [][ (Ready /\ Ready' /\ ~last'.threw) =>
        LET entries == EntriesOf(cookie.v)
            entriesAfter == EntriesOf(cookie'.v)
            suppAfter == SuppressedOf(cookie'.v)
        IN /\ last'.op = "delete" =>
                \E i \in 1..Len(entries) :
                   /\ entriesAfter = RemoveAt(entries, i - 1)
                   /\ entryKey(entries[i]) \in CatalogKeys
                        => entryKey(entries[i]) \in Keys(suppAfter)
           /\ Keys(SuppressedOf(cookie.v)) \subseteq Keys(suppAfter)
           /\ \A k \in CatalogKeys \cap Keys(suppAfter) :
                Count(k, entriesAfter) > Count(k, entries)
                  => /\ last'.op = "submit"
                     /\ entriesAfter = Append(entries, entriesAfter[Len(entriesAfter)])
                     /\ entryKey(entriesAfter[Len(entriesAfter)]) = k
    ]_vars

\* After two deletes of catalog entries, a clear-all re-merged the catalog
\* and left both suppressed entries out.
C2_Witness ==
  /\ Ready
  /\ last.op = "reset"
  /\ ~last.threw
  /\ Len(SuppressedOf(cookie.v)) = 2
  /\ Len(EntriesOf(cookie.v)) = Len(hard_coded_dates.a) - 2

\* C3: mergeDefaultEntries applied to its own result, with the same catalog
\* and suppressed entries, returns that result.
C3_MergeIdempotent ==
  (args.fn = "mergeDefaultEntries" /\ Len(ret) = 2) => ret[2] = ret[1]

\* The first merge appended catalog entries and the second has run.
C3_Witness ==
  /\ args.fn = "mergeDefaultEntries"
  /\ Len(ret) = 2
  /\ Len(ret[1].a) > Len(args.existingEntries.a)
  /\ Len(args.existingEntries.a) >= 1

\* Positions of the catalog entries a merge has to append: key neither in
\* the existing entries nor suppressed, first occurrence of its key.
FreshPositions(existing, defaults, suppressed) ==
  {i \in 1..Len(defaults) :
     /\ entryKey(defaults[i]) \notin Keys(existing) \cup Keys(suppressed)
     /\ \A j \in 1..(i - 1) : entryKey(defaults[j]) # entryKey(defaults[i])}

\* C4: mergeDefaultEntries(E, C, S) is E, unchanged, followed by the catalog
\* entries at the fresh positions, in catalog order.
C4_MergeResult ==
  (args.fn = "mergeDefaultEntries" /\ Len(ret) >= 1) =>
    LET existing == args.existingEntries.a
        defaults == args.defaults.a
        fresh == FreshPositions(existing, defaults, args.suppressed.a)
        merged == ret[1].a
    IN /\ ret[1].t = "array"
       /\ Len(merged) = Len(existing) + Cardinality(fresh)
       /\ SubSeq(merged, 1, Len(existing)) = existing
       /\ \A i \in fresh :
            merged[Len(existing) + Cardinality({j \in fresh : j <= i})] = defaults[i]

\* A merge with existing entries, a suppressed entry and a catalog that names
\* one key twice, which appended an entry.
C4_Witness ==
  /\ args.fn = "mergeDefaultEntries"
  /\ Len(ret) >= 1
  /\ Len(args.existingEntries.a) >= 1
  /\ Len(args.suppressed.a) >= 1
  /\ Len(args.defaults.a) = 2
  /\ entryKey(args.defaults.a[1]) = entryKey(args.defaults.a[2])
  /\ Len(ret[1].a) = Len(args.existingEntries.a) + 1

\* C5: addSuppressedDefault returns suppressed itself when the entry's key is
\* no catalog key or is already suppressed, and otherwise suppressed with the
\* entry's date and hours appended as its last element.
C5_SuppressResult ==
  (args.fn = "addSuppressedDefault" /\ ret # <<>>) =>
    LET key == entryKey(args.entry)
        suppressed == args.suppressed.a
    IN IF key \notin Keys(args.defaults.a) \/ key \in Keys(suppressed)
       THEN ret[1] = args.suppressed
       ELSE /\ ret[1].t = "array"
            /\ Len(ret[1].a) = Len(suppressed) + 1
            /\ SubSeq(ret[1].a, 1, Len(suppressed)) = suppressed
            /\ ret[1].a[Len(ret[1].a)] = args.entry

\* A catalog entry was appended to a suppressed list that was not empty.
C5_Witness ==
  /\ args.fn = "addSuppressedDefault"
  /\ ret # <<>>
  /\ Len(args.suppressed.a) >= 1
  /\ Len(ret[1].a) = Len(args.suppressed.a) + 1

\* C6 as claimed: an ensureState() call that follows a handler with no write
\* in between (a reload of the page, or a change of the check date) returns
\* the state the handler's ensureState() call returned and leaves the cookie
\* as it was.
C6_EnsureIdempotent ==
  [][ (Ensured /\ last'.op \in {"init", "check"})
        => /\ ~last'.threw
           /\ last'.returned = last.returned
           /\ cookie' = cookie
    ]_vars

\* C7 as claimed: loadState() after saveState(s) returns Normalize(s) for a
\* state s with a startDate string, an entries array and a suppressedDefaults
\* array, and Normalize leaves every state loadState() returns unchanged.
C7_RoundTrip ==
  /\ (args.fn = "saveState" /\ ret # <<>>) =>
       /\ ret[1] = Normalize(args.state)
       /\ Normalize(Normalize(args.state)) = Normalize(args.state)
  /\ (args.fn = "loadState" /\ ret # <<>>) => Normalize(ret[1]) = ret[1]

\* C8 as claimed: loadState() on a missing or unparseable cookie returns the
\* default state and leaves the default state in the cookie.
C8_LoadReseeds ==
  (/\ args.fn = "loadState"
   /\ ret # <<>>
   /\ args.stored.t \in {"absent", "empty", "malformed"})
    => /\ ret[1] = defaultState
       /\ cookie = saveState(defaultState)

\* C8, amended: loadState() on a cookie that fails to parse (or parses to
\* null) returns the default state and writes the default state to the
\* cookie; on a missing or empty cookie it returns the default state and
\* writes nothing.
C8_LoadDefaults ==
  (args.fn = "loadState" /\ ret # <<>>) =>
    /\ (args.stored.t = "malformed" \/ args.stored = JsonText(Null))
         => ret[1] = defaultState /\ cookie = JsonText(defaultState)
    /\ args.stored.t \in {"absent", "empty"}
         => ret[1] = defaultState /\ cookie = args.stored

\* loadState() has run on a cookie that fails to parse.
C8_Witness ==
  /\ args.fn = "loadState"
  /\ ret # <<>>
  /\ args.stored = MalformedText

\* C9 as claimed: whatever the cookie held, a handler's ensureState() call
\* does not throw and returns a state whose entries and suppressedDefaults
\* are arrays of entry objects.
C9_EnsureNeverThrows ==
  last.op # "none" =>
    /\ ~last.threw
    /\ IsArray(Get(last.returned, "entries"))
    /\ IsArray(Get(last.returned, "suppressedDefaults"))

\* C10 as claimed: the startDate of a state ensureState() returns is a
\* calendar day.
C10_StartDateValid ==
  Ensured => toStartOfDay(Get(last.returned, "startDate")).t = "date"

(***************************************************************************)
(* Ledger properties.                                                      *)
(***************************************************************************)
\* The calendar day of a date string, or -1 when it names no calendar day.
DayOf(value) ==
  LET d == toStartOfDay(value) IN IF d.t = "date" THEN d.day ELSE -1

RECURSIVE SumOfHours(_)
SumOfHours(entries) ==
  IF entries = <<>> THEN 0 ELSE Get(Head(entries), "hours").n + SumOfHours(Tail(entries))

\* C11 as claimed: calculateUsedHours(T, state) is the sum of the hours of
\* the entries whose date is a calendar day on or before T, and 0 when T is
\* no calendar day.
C11_UsedHoursSum ==
  (args.fn = "calculateUsedHours" /\ ret # <<>>) =>
    LET target == DayOf(args.targetDateString)
        counted == SelectSeq(EntriesOf(args.state),
                             LAMBDA e : DayOf(Get(e, "date")) >= 0
                                        /\ DayOf(Get(e, "date")) <= target)
    IN ret[1] = Num(IF target < 0 THEN 0 ELSE SumOfHours(counted))

\* C12 as claimed: for a valid target date, taking the entries whose date is
\* empty, missing or unparseable out of the state leaves calculateUsedHours
\* unchanged.
C12_BadDateExcluded ==
  (args.fn = "calculateUsedHours" /\ ret # <<>> /\ DayOf(args.targetDateString) >= 0) =>
    LET dated == SelectSeq(EntriesOf(args.state), LAMBDA e : DayOf(Get(e, "date")) >= 0)
    IN ret[1] = calculateUsedHours(args.targetDateString,
                                   Obj([entries |-> Arr(dated)] @@ args.state.f),
                                   args.zone)

\* C13 as claimed: calculateAccruedHours is 0 when a date fails to normalize
\* or the target is before the start, and otherwise the number of calendar
\* days from start to target times 20 * HOURS_PER_DAY / 365.
C13_AccruedByCalendarDays ==
  (args.fn = "calculateAccruedHours" /\ ret # <<>>) =>
    LET start == DayOf(Get(args.state, "startDate"))
        target == DayOf(args.targetDateString)
    IN ret[1] = Frac(IF start < 0 \/ target < start THEN 0
                     ELSE (target - start) * MS_PER_DAY
                            * (ACCRUAL_DAYS_PER_YEAR * HOURS_PER_DAY),
                     MS_PER_DAY * 365)

\* C13, amended: calculateAccruedHours is 0 when a date fails to normalize or
\* the target is before the start; otherwise it is the time from local
\* midnight of the start day to local midnight of the target day, in days,
\* times 20 * HOURS_PER_DAY / 365: the number of calendar days between them,
\* plus 1/24 for each hour the clocks were set back in between.  It is 0 on
\* the start day, never negative, and does not decrease as the target day
\* advances.
C13_AccruedByElapsedTime ==
  (args.fn = "calculateAccruedHours" /\ ret # <<>>) =>
    LET start == DayOf(Get(args.state, "startDate"))
        target == DayOf(args.targetDateString)
        later == DayOf(args.later)
        setBack == UtcOffset(args.zone, start) - UtcOffset(args.zone, target)
    IN /\ ret[1].den = MS_PER_DAY * 365
       /\ ret[1].num >= 0
       /\ (start < 0 \/ target < start) => ret[1].num = 0
       /\ (start >= 0 /\ target >= start) =>
            ret[1].num = ((target - start) * MS_PER_DAY + setBack)
                           * (ACCRUAL_DAYS_PER_YEAR * HOURS_PER_DAY)
       /\ (start >= 0 /\ target = start) => ret[1].num = 0
       /\ (start >= 0 /\ target = start + 10 /\ setBack = 0) =>
            ret[1].num * 365 = 10 * 160 * ret[1].den
       /\ (Len(ret) = 2 /\ target >= 0 /\ later >= target) => ret[2].num >= ret[1].num

\* Accrual over ten calendar days across the clock change, followed by the
\* accrual for a later check date.
C13_Witness ==
  /\ args.fn = "calculateAccruedHours"
  /\ Len(ret) = 2
  /\ args.zone = "America/New_York"
  /\ Get(args.state, "startDate") = Str("2025-10-27")
  /\ args.targetDateString = Str("2025-11-06")
  /\ args.later = Str("2025-12-25")
  /\ ret[2].num > ret[1].num
  /\ ret[1].num > 0

(***************************************************************************)
(* Properties of the handlers.                                             *)
(***************************************************************************)
\* index names one of n elements.
InRange(index, n) == index.t = "number" /\ index.n \in 0..(n - 1)

\* The fields of state other than entries are those of other.
SameButEntries(state, other) ==
  /\ Get(state, "startDate") = Get(other, "startDate")
  /\ Get(state, "suppressedDefaults") = Get(other, "suppressedDefaults")

\* C14: a delete with a valid index i leaves, in the cookie, the entries
\* ensureState() returned at the start of the handler without the one at
\* position i, the others in their order, the suppressed entries that
\* addSuppressedDefault makes for the removed entry, and the same startDate.
C14_DeleteRemovesAt ==
  [][ (pc = "ready" /\ args'.fn = "delete"
         /\ InRange(args'.index, Len(EntriesOf(ensureState(cookie).state))))
        => LET before == ensureState(cookie).state
               entries == EntriesOf(before)
               i == args'.index.n
               after == EntriesOf(cookie'.v)
           IN /\ last'.op = "delete" /\ ~last'.threw
              /\ Len(after) = Len(entries) - 1
              /\ \A j \in 1..Len(after) :
                   after[j] = IF j <= i THEN entries[j] ELSE entries[j + 1]
              /\ Get(cookie'.v, "suppressedDefaults")
                   = addSuppressedDefault(entries[i + 1],
                                          Get(before, "suppressedDefaults"),
                                          hard_coded_dates)
              /\ Get(cookie'.v, "startDate") = Get(before, "startDate")
    ]_vars

\* A delete removed the second of the stored entries, a catalog entry, while
\* an entry with the key of another one was stored twice.
C14_Witness ==
  /\ Ready
  /\ last.op = "delete"
  /\ args.index = Num(1)
  /\ Len(SuppressedOf(cookie.v)) = 1
  /\ Count("2025-10-27|8", EntriesOf(cookie.v)) = 2

\* C15: a delete whose index names no stored entry leaves in the cookie the
\* state ensureState() returned at the start of the handler, renders nothing
\* and raises no error.
C15_OutOfRangeIgnored ==
  [][ (pc = "ready" /\ args'.fn = "delete" /\ ~ensureState(cookie).threw
         /\ ~InRange(args'.index, Len(EntriesOf(ensureState(cookie).state))))
        => /\ ~last'.threw
           /\ cookie' = JsonText(ensureState(cookie).state)
           /\ rendered' = rendered
    ]_vars

\* A delete with the index just past the last entry was ignored.
C15_Witness ==
  /\ Ready
  /\ last.op = "ignored"
  /\ args.index = Num(Len(EntriesOf(cookie.v)))
  /\ Added(cookie.v) >= 1

\* C16 as claimed: after clear-all the cookie holds a state whose entries are
\* empty and whose startDate and suppressedDefaults are as before.
C16_ClearEmpties ==
  [][ (pc = "ready" /\ args'.fn = "reset" /\ ~ensureState(cookie).threw)
        => /\ cookie'.t = "json"
           /\ EntriesOf(cookie'.v) = <<>>
           /\ SameButEntries(cookie'.v, ensureState(cookie).state)
    ]_vars

\* C16, amended: after clear-all the cookie holds a state whose entries are
\* the catalog entries that are not suppressed, in catalog order, and whose
\* startDate and suppressedDefaults are as before.
C16_ClearLeavesCatalog ==
  [][ (pc = "ready" /\ args'.fn = "reset" /\ ~ensureState(cookie).threw)
        => /\ ~last'.threw
           /\ cookie'.t = "json"
           /\ EntriesOf(cookie'.v)
                = SelectSeq(hard_coded_dates.a,
                            LAMBDA e : entryKey(e) \notin Keys(SuppressedOf(cookie'.v)))
           /\ SameButEntries(cookie'.v, ensureState(cookie).state)
    ]_vars

\* A clear-all ran with one catalog entry suppressed.
C16_Witness ==
  /\ Ready
  /\ last.op = "reset"
  /\ Len(SuppressedOf(cookie.v)) = 1
  /\ Len(EntriesOf(cookie.v)) = Len(hard_coded_dates.a) - 1

\* C17 as claimed: after a submit the cookie holds the entries ensureState()
\* returned at the start of the handler followed by the new entry
\* {date, hours}, and the same startDate and suppressedDefaults.
C17_AddAppends ==
  [][ (pc = "ready" /\ args'.fn = "submit" /\ ~ensureState(cookie).threw)
        => LET before == ensureState(cookie).state
               entryDate == Or(Str(args'.ptoDate), Today)
               hours == Or(Number(args'.ptoHours), Num(HOURS_PER_DAY))
           IN /\ ~last'.threw
              /\ cookie'.t = "json"
              /\ EntriesOf(cookie'.v) = Append(EntriesOf(before), Entry(entryDate, hours))
              /\ SameButEntries(cookie'.v, before)
    ]_vars

\* C18: from an empty store, suppressedDefaults is always an array of entries
\* with catalog keys, no key twice, and a delete of an entry whose key is no
\* catalog key leaves it as it was.
C18_SuppressedOnlyCatalog ==
  [][ /\ (pc' = "ready" /\ ~last'.threw)
          => /\ cookie'.t = "json"
             /\ IsArray(Get(cookie'.v, "suppressedDefaults"))
             /\ \A i \in 1..Len(SuppressedOf(cookie'.v)) :
                  /\ entryKey(SuppressedOf(cookie'.v)[i]) \in CatalogKeys
                  /\ Count(entryKey(SuppressedOf(cookie'.v)[i]), SuppressedOf(cookie'.v)) = 1
      /\ (pc = "ready" /\ args'.fn = "delete"
            /\ InRange(args'.index, Len(EntriesOf(ensureState(cookie).state)))
            /\ entryKey(EntriesOf(ensureState(cookie).state)[args'.index.n + 1])
                  \notin CatalogKeys)
          => Get(cookie'.v, "suppressedDefaults")
               = Get(ensureState(cookie).state, "suppressedDefaults")
    ]_vars

\* With the catalog entry of 2025-10-27 suppressed, a delete removed the
\* entry the user had added (a second one with that key, or one with a key
\* of its own) and left the suppressed entries as they were.
C18_Witness ==
  /\ Ready
  /\ last.op = "delete"
  /\ args.index = Num(Len(hard_coded_dates.a) - 1)
  /\ Keys(SuppressedOf(cookie.v)) = {"2025-10-27|8"}
  /\ Len(SuppressedOf(cookie.v)) = 1
  /\ Count("2025-10-27|8", EntriesOf(cookie.v)) = 0
  /\ Len(EntriesOf(cookie.v)) = Len(hard_coded_dates.a) - 1

\* C19 as claimed: after init and after every handler that ran to
\* completion, the cookie holds a state of the normalized shape that
\* ensureState() returns unchanged, and it is the state rendered last.
C19_PersistedCanonical ==
  (pc = "ready" /\ last.op # "none" /\ ~last.threw) =>
    /\ cookie.t = "json"
    /\ DOMAIN cookie.v.f = {"startDate", "entries", "suppressedDefaults"}
    /\ IsArray(Get(cookie.v, "entries"))
    /\ IsArray(Get(cookie.v, "suppressedDefaults"))
    /\ ensureState(cookie).state = cookie.v
    /\ ensureState(cookie).cookie = cookie
    /\ rendered = cookie.v

\* C20 as claimed: from an empty store, every stored entry has a
\* non-negative number of hours.
C20_HoursNonNegative ==
  (pc = "ready" /\ cookie.t = "json") =>
    \A i \in 1..Len(EntriesOf(cookie.v)) :
      LET hours == Get(EntriesOf(cookie.v)[i], "hours")
      IN hours.t = "number" /\ hours.n >= 0

(***************************************************************************)
(* Properties of the history list.                                         *)
(***************************************************************************)
\* The rows of the list rendered last.
History == renderHistory(rendered).rows

====
